---- MODULE Spec2Model ----
(***************************************************************************)
(* The authentication broker of tinyclaw: the PKCE registry (pkceStore),   *)
(* the start / callback / status / disconnect routes and the settings      *)
(* store (getSettings / mutateSettings).                                   *)
(*                                                                         *)
(* The repository holds two revisions of the routes: the claude/codex      *)
(* routes of src/src/server/routes/auth.ts (lines 1-280) and the           *)
(* claude/openai routes carried in src/src/lib/config.ts (lines 82-380).   *)
(* The variable build says which revision is deployed; it never changes.   *)
(***************************************************************************)
EXTENDS Integers, FiniteSets, Sequences, TLC

VARIABLES
    build,      \* "auth" (auth.ts: claude, codex) or "config" (config.ts: claude, openai)
    now,        \* Date.now(), in ms
    ticks,      \* number of clock advances so far (bounds the run)
    pkceStore,  \* the Map state -> {verifier, provider, expiresAt}
    issued,     \* the state tokens generateState() has returned so far
    inflight,   \* callbacks awaiting the token endpoint (suspended at await fetch)
    exchanges,  \* per state token, the number of token-exchange requests issued
    file,       \* the bytes of SETTINGS_FILE
    bak,        \* the bytes of SETTINGS_FILE.bak
    last,       \* the request a handler has just dealt with and what it answered, until
                \* control is back in the event loop
    out,        \* what that handler has just sent: the body of its response, or the
                \* body of its request to the token endpoint
    worker      \* a mutateSettings call of another process of the installation
                \* (queue, channel clients): where it stands and the settings it read

vars == <<build, now, ticks, pkceStore, issued, inflight, exchanges, file, bak, last, out, worker>>

----------------------------------------------------------------------------
(* Bounds of the model *)

MaxStarts == 2

MaxTicks == 2

(* Program constants *)

TTL == 10 * 60 * 1000

MsPerSecond == 1000

----------------------------------------------------------------------------
(* JavaScript values, as far as the routes tell them apart.  Every value   *)
(* has the same three fields so that any two of them can be compared.      *)

Absent == [t |-> "absent", s |-> "", n |-> 0]

Undef == [t |-> "undefined", s |-> "", n |-> 0]

Null == [t |-> "null", s |-> "", n |-> 0]

Str(x) == [t |-> "str", s |-> x, n |-> 0]

Num(k) == [t |-> "num", s |-> "", n |-> k]

(* if (v), v || w, v ? a : b *)
Truthy(v) ==
    \/ v.t = "str" /\ v.s # ""
    \/ v.t = "num" /\ v.n # 0

(* v ?? null *)
OrNull(v) == IF v.t \in {"absent", "undefined", "null"} THEN Null ELSE v

(* a || b *)
Or(a, b) == IF Truthy(a) THEN a ELSE b

----------------------------------------------------------------------------
(* The settings document.  A provider sub-record is absent or an object    *)
(* with the fields the routes read and write, and model for the rest.      *)

EmptyFields ==
    [apiKey |-> Absent, oauth_token |-> Absent, oauth_refresh_token |-> Absent,
     oauth_expires_at |-> Absent, auth_method |-> Absent, model |-> Absent]

NoSub == [t |-> "absent", f |-> EmptyFields]

Obj(fields) == [t |-> "obj", f |-> fields]

NoModels == [t |-> "absent", provider |-> Absent, anthropic |-> NoSub, openai |-> NoSub, opencode |-> NoSub]

EmptyModels == [t |-> "obj", provider |-> Absent, anthropic |-> NoSub, openai |-> NoSub, opencode |-> NoSub]

(* {} : what getSettings returns when it gives up *)
EmptyDoc == [models |-> NoModels, other |-> ""]

SubTruthy(sub) == sub.t = "obj"

(* JSON.stringify followed by JSON.parse: a key whose value is undefined   *)
(* is not written.                                                         *)
JsonValue(v) == IF v.t = "undefined" THEN Absent ELSE v

JsonSub(sub) ==
    IF sub.t = "obj"
    THEN [t |-> "obj", f |-> [k \in DOMAIN sub.f |-> JsonValue(sub.f[k])]]
    ELSE NoSub

JsonDoc(doc) ==
    [models |->
        IF doc.models.t = "obj"
        THEN [t |-> "obj",
              provider |-> JsonValue(doc.models.provider),
              anthropic |-> JsonSub(doc.models.anthropic),
              openai |-> JsonSub(doc.models.openai),
              opencode |-> JsonSub(doc.models.opencode)]
        ELSE NoModels,
     other |-> doc.other]

(* The bytes of a file: missing, a JSON document, near-valid text that     *)
(* jsonrepair turns into doc, or text that cannot be repaired.             *)
MissingFile == [kind |-> "missing", doc |-> EmptyDoc]

GarbageFile == [kind |-> "garbage", doc |-> EmptyDoc]

JsonFile(doc) == [kind |-> "json", doc |-> JsonDoc(doc)]

BrokenFile(doc) == [kind |-> "broken", doc |-> JsonDoc(doc)]

(* fs.writeFileSync(SETTINGS_FILE, JSON.stringify(settings, null, 2) + '\n') *)
WriteSettings(settings) == JsonFile(settings)

----------------------------------------------------------------------------
(* getSettings *)

(* mutant: the sub-records are tried in the order anthropic, openai, opencode *)
DetectProviderAnthropicFirst(settings) ==
    IF settings.models.t # "obj" \/ Truthy(settings.models.provider)
    THEN settings
    ELSE IF SubTruthy(settings.models.anthropic)
    THEN [settings EXCEPT !.models.provider = Str("anthropic")]
    ELSE IF SubTruthy(settings.models.openai)
    THEN [settings EXCEPT !.models.provider = Str("openai")]
    ELSE IF SubTruthy(settings.models.opencode)
    THEN [settings EXCEPT !.models.provider = Str("opencode")]
    ELSE settings

(* lines 39-50: models.provider inferred from the sub-records *)
DetectProvider(settings) ==
    IF settings.models.t # "obj" \/ Truthy(settings.models.provider)
    THEN settings
    ELSE IF SubTruthy(settings.models.openai)
    THEN [settings EXCEPT !.models.provider = Str("openai")]
    ELSE IF SubTruthy(settings.models.opencode)
    THEN [settings EXCEPT !.models.provider = Str("opencode")]
    ELSE IF SubTruthy(settings.models.anthropic)
    THEN [settings EXCEPT !.models.provider = Str("anthropic")]
    ELSE settings

(* mutant: a default document instead of {} when nothing can be read *)
GetSettingsDefaults(f) ==
    IF f.kind \in {"json", "broken"} THEN DetectProvider(f.doc)
    ELSE [models |-> EmptyModels, other |-> ""]

(* the value getSettings returns *)
GetSettings(f) ==
    IF f.kind \in {"json", "broken"} THEN DetectProvider(f.doc) ELSE EmptyDoc

(* the settings file after getSettings: a repaired document is written back *)
FileAfterGet(f) ==
    IF f.kind = "broken" THEN WriteSettings(f.doc) ELSE f

(* mutant: the copy is taken after the repaired document was written *)
BakAfterGetLate(f, b) ==
    IF f.kind = "broken" THEN WriteSettings(f.doc) ELSE b

(* the backup file after getSettings: fs.copyFileSync before the repair is written *)
BakAfterGet(f, b) ==
    IF f.kind = "broken" THEN f ELSE b

----------------------------------------------------------------------------
(* The routes of each revision and the sub-record each one writes *)

Routes(b) == IF b = "auth" THEN {"claude", "codex"} ELSE {"claude", "openai"}

AllRoutes == {"claude", "codex", "openai"}

SettingKey(route) == IF route = "claude" THEN "anthropic" ELSE "openai"

States == 1..MaxStarts

NoState == 0

Codes == {"", "c1"}

Errors == {"", "access_denied"}

(* how far the clock moves between two requests *)
TickSteps == {TTL}

----------------------------------------------------------------------------
(* The PKCE registry *)

EmptyStore == [k \in {} |-> 0]

(* mutant: the comparison the wrong way round *)
ExpiredReversed(entry, t) == entry.expiresAt > t

(* mutant: an entry expires at the instant of its expiresAt *)
ExpiredInclusive(entry, t) == entry.expiresAt <= t

(* v.expiresAt < now, in cleanExpired and in the callbacks *)
Expired(entry, t) == entry.expiresAt < t

(* mutant: every start empties the registry *)
CleanAll(store, t) == EmptyStore

(* mutant: nothing is swept *)
CleanNothing(store, t) == store

(* mutant: the sweep also removes the entries that expire at this instant *)
CleanExpiredInclusive(store, t) ==
    [k \in {x \in DOMAIN store : store[x].expiresAt > t} |-> store[k]]

(* cleanExpired *)
CleanExpired(store, t) ==
    [k \in {x \in DOMAIN store : ~Expired(store[x], t)} |-> store[k]]

(* pkceStore.set(state, entry) *)
StoreSet(store, k, entry) ==
    [x \in DOMAIN store \cup {k} |-> IF x = k THEN entry ELSE store[x]]

(* mutant: the entry is not deleted *)
StoreKeep(store, k) == store

(* mutant: the oldest entry is deleted instead of the one looked up *)
StoreDeleteOldest(store, k) ==
    LET oldest == CHOOSE m \in DOMAIN store : \A x \in DOMAIN store : m <= x
    IN  [x \in DOMAIN store \ {oldest} |-> store[x]]

(* pkceStore.delete(state) *)
StoreDelete(store, k) == [x \in DOMAIN store \ {k} |-> store[x]]

(* { verifier, provider, expiresAt: Date.now() + 10 * 60 * 1000 } *)
NewEntry(route, verifier, t) ==
    [verifier |-> verifier, provider |-> route, expiresAt |-> t + TTL]

(* mutant: the provider of the entry is not compared with the route *)
InvalidSessionAnyProvider(store, route, st, t) ==
    \/ st \notin DOMAIN store
    \/ Expired(store[st], t)

(* !entry || entry.provider !== route || entry.expiresAt < Date.now() *)
InvalidSession(store, route, st, t) ==
    \/ st \notin DOMAIN store
    \/ store[st].provider # route
    \/ Expired(store[st], t)

----------------------------------------------------------------------------
(* The transforms handed to mutateSettings *)

(* mutant: the lifetime is added in seconds *)
ExpiresAtSeconds(expires_in, t) ==
    IF Truthy(expires_in) THEN Num(t + expires_in.n) ELSE Null

(* token.expires_in ? Date.now() + token.expires_in * 1000 : null *)
ExpiresAt(expires_in, t) ==
    IF Truthy(expires_in) THEN Num(t + expires_in.n * MsPerSecond) ELSE Null

(* reading a property that a parsed object does not have gives undefined *)
Read(v) == IF v.t = "absent" THEN Undef ELSE v

(* mutant: the sub-record is replaced by the four fields *)
SaveTokenReplace(s, key, token, t) ==
    LET m == IF s.models.t = "obj" THEN s.models ELSE EmptyModels
        f == [EmptyFields EXCEPT !.oauth_token = Read(token.access_token),
                                 !.oauth_refresh_token = OrNull(token.refresh_token),
                                 !.oauth_expires_at = ExpiresAt(token.expires_in, t),
                                 !.auth_method = Str("oauth")]
    IN  [s EXCEPT !.models = [m EXCEPT ![key] = Obj(f)]]

(* the callback's transform *)
SaveToken(s, key, token, t) ==
    LET m == IF s.models.t = "obj" THEN s.models ELSE EmptyModels
        sub == IF SubTruthy(m[key]) THEN m[key] ELSE Obj(EmptyFields)
        f == [sub.f EXCEPT !.oauth_token = Read(token.access_token),
                           !.oauth_refresh_token = OrNull(token.refresh_token),
                           !.oauth_expires_at = ExpiresAt(token.expires_in, t),
                           !.auth_method = Str("oauth")]
    IN  [s EXCEPT !.models = [m EXCEPT ![key] = Obj(f)]]

(* the fields each revision's disconnect deletes *)
DisconnectFields(b) ==
    IF b = "config"
    THEN {"oauth_token", "oauth_refresh_token", "oauth_expires_at", "auth_method", "apiKey"}
    ELSE {"oauth_token", "oauth_refresh_token", "oauth_expires_at", "auth_method"}

(* disconnect's transform *)
ClearCredentials(s, key, b) ==
    IF s.models.t = "obj" /\ SubTruthy(s.models[key])
    THEN [s EXCEPT !.models[key].f =
            [k \in DOMAIN @ |-> IF k \in DisconnectFields(b) THEN Absent ELSE @[k]]]
    ELSE s

(* mutant: an API key alone does not count as connected *)
StatusOfTokenOnly(s, key) ==
    LET f == s.models[key].f
    IN  [connected |-> Truthy(f.oauth_token),
         method |-> Or(f.auth_method, IF Truthy(f.apiKey) THEN Str("api_key") ELSE Null)]

(* mutant: the method is the stored auth_method or nothing *)
StatusOfStoredMethod(s, key) ==
    LET f == s.models[key].f
    IN  [connected |-> Truthy(f.oauth_token) \/ Truthy(f.apiKey),
         method |-> Or(f.auth_method, Null)]

(* mutant: a stored key decides the method before auth_method does *)
StatusOfKeyFirst(s, key) ==
    LET f == s.models[key].f
    IN  [connected |-> Truthy(f.oauth_token) \/ Truthy(f.apiKey),
         method |-> IF Truthy(f.apiKey) THEN Str("api_key") ELSE Or(f.auth_method, Null)]

(* what the status route answers for the settings it got *)
StatusOf(s, key) ==
    LET f == s.models[key].f
    IN  [connected |-> Truthy(f.oauth_token) \/ Truthy(f.apiKey),
         method |-> Or(f.auth_method, IF Truthy(f.apiKey) THEN Str("api_key") ELSE Null)]

(* the answer of GET /api/auth/<route>/status when the settings file is f *)
StatusResult(f, route) == StatusOf(GetSettings(f), SettingKey(route))

----------------------------------------------------------------------------
(* Inputs: the settings files the broker may find, the token endpoint's    *)
(* answers.                                                                *)

WithFields(apiKey, oauth_token, auth_method) ==
    Obj([EmptyFields EXCEPT !.apiKey = apiKey, !.oauth_token = oauth_token,
                            !.oauth_refresh_token = IF oauth_token = Absent THEN Absent ELSE Null,
                            !.oauth_expires_at = IF oauth_token = Absent THEN Absent ELSE Null,
                            !.auth_method = auth_method,
                            !.model = Str("m")])

(* the document the railway start script creates *)
RailwayDoc ==
    [models |-> [t |-> "obj", provider |-> Str("anthropic"),
                 anthropic |-> WithFields(Absent, Absent, Absent),
                 openai |-> WithFields(Absent, Absent, Absent),
                 opencode |-> WithFields(Absent, Absent, Absent)],
     other |-> "railway"]

KeyDoc ==
    [models |-> [t |-> "obj", provider |-> Absent,
                 anthropic |-> WithFields(Str("K"), Absent, Absent),
                 openai |-> WithFields(Str("K"), Absent, Str("api_key")),
                 opencode |-> NoSub],
     other |-> "o"]

OAuthDoc ==
    [models |-> [t |-> "obj", provider |-> Absent,
                 anthropic |-> WithFields(Absent, Str("T0"), Str("oauth")),
                 openai |-> NoSub,
                 opencode |-> WithFields(Absent, Absent, Absent)],
     other |-> "o"]

(* a document saved from the dashboard's editor *)
EditedDoc ==
    [models |-> [t |-> "obj", provider |-> Str("opencode"),
                 anthropic |-> WithFields(Str("K2"), Absent, Str("api_key")),
                 openai |-> WithFields(Str("K2"), Str("T9"), Str("oauth")),
                 opencode |-> NoSub],
     other |-> "edited"]

(* what an edit from outside the broker leaves in the settings file *)
ExternalFiles == { JsonFile(EditedDoc), BrokenFile(KeyDoc) }

InitFiles ==
    { MissingFile, GarbageFile, JsonFile(RailwayDoc), JsonFile(KeyDoc),
      BrokenFile(OAuthDoc) }

Tokens ==
    { [access_token |-> Str("T1"), refresh_token |-> Str("R1"), expires_in |-> Num(3600)],
      [access_token |-> Str("T2"), refresh_token |-> Absent, expires_in |-> Num(0)],
      [access_token |-> Absent, refresh_token |-> Absent, expires_in |-> Absent] }

NoToken == [access_token |-> Absent, refresh_token |-> Absent, expires_in |-> Absent]

(* what fetch and tokenRes.json() can come to *)
Outcomes == {"ok", "http_error", "transport", "bad_json"}

(* crypto.randomBytes(48): a value no earlier start has drawn *)
VerifierOf(st) == 100 + st

(* no verifier: the value of a field that carries none *)
NoVerifier == 0

(* crypto.createHash('sha256').update(verifier).digest(): one-to-one on    *)
(* the verifiers drawn here, and never a verifier itself                   *)
Sha256(verifier) == 7 * verifier + 3

(* .digest('base64url'): the URL-safe text of a digest *)
Base64Url(digest) == digest + 5000

(* mutant: the challenge is the verifier itself (the "plain" method) *)
GenerateCodeChallengePlain(verifier) == verifier

(* generateCodeChallenge *)
GenerateCodeChallenge(verifier) == Base64Url(Sha256(verifier))

(* `${baseUrl}/api/auth/<route>/callback` *)
RedirectUri(route) == <<"baseUrl", "/api/auth/", route, "/callback">>

----------------------------------------------------------------------------
(* What a handler sends *)

NoMessage ==
    [to |-> "", state |-> NoState, code |-> "", code_challenge |-> NoVerifier,
     code_challenge_method |-> "", code_verifier |-> NoVerifier,
     redirect_uri |-> <<>>, text |-> ""]

(* the query of the authorization URL that start answers with *)
AuthUrl(route, st, verifier) ==
    [NoMessage EXCEPT !.to = "browser",
                      !.state = st,
                      !.code_challenge = GenerateCodeChallenge(verifier),
                      !.code_challenge_method = "S256",
                      !.redirect_uri = RedirectUri(route)]

(* mutant: the exchange sends a verifier generated anew *)
TokenRequestFreshVerifier(route, code, st, entry) ==
    [NoMessage EXCEPT !.to = "token_endpoint",
                      !.code = code,
                      !.code_verifier = VerifierOf(st + 1),
                      !.redirect_uri = RedirectUri(route)]

(* mutant: the exchange names the callback of the claude route always *)
TokenRequestClaudeUri(route, code, st, entry) ==
    [NoMessage EXCEPT !.to = "token_endpoint",
                      !.code = code,
                      !.code_verifier = entry.verifier,
                      !.redirect_uri = RedirectUri("claude")]

(* the body of the POST to the token endpoint *)
TokenRequest(route, code, st, entry) ==
    [NoMessage EXCEPT !.to = "token_endpoint",
                      !.code = code,
                      !.code_verifier = entry.verifier,
                      !.redirect_uri = RedirectUri(route)]

(* an HTML page or a JSON body without any field of the session: the       *)
(* failure page of the error parameter quotes that parameter               *)
Page(text) == [NoMessage EXCEPT !.to = "browser", !.text = text]

----------------------------------------------------------------------------
(* Responses *)

(* the page or JSON body a handler answers, with the route, the state and   *)
(* the code of its request                                                 *)
Response(resp, route, st, code) == [resp |-> resp, route |-> route, st |-> st, code |-> code]

(* no handler is running *)
Idle == Response("", "", NoState, "")

(* a failure after the session was consumed: caught by the try/catch of    *)
(* config.ts (lines 172, 218-221), not caught in auth.ts                   *)
ThrownResponse(b) == IF b = "config" THEN "error_page" ELSE "exception"

(* mutant: the error parameter is looked at after the session *)
VerdictSessionFirst(store, route, code, st, error, t) ==
    IF code = "" \/ st = NoState THEN (IF error # "" THEN "auth_failed" ELSE "missing")
    ELSE IF InvalidSession(store, route, st, t) THEN (IF error # "" THEN "auth_failed" ELSE "invalid_session")
    ELSE "accept"

(* the callback requests tried: at most one of code, state and error is   *)
(* not what a provider's redirect after consent carries                    *)
AtMostOneFlaw(code, st, error) ==
    \/ code # "" /\ error = ""
    \/ code # "" /\ st # NoState
    \/ st # NoState /\ error = ""

(* the callback's checks before the token exchange, in the code's order *)
Verdict(store, route, code, st, error, t) ==
    IF error # "" THEN "auth_failed"
    ELSE IF code = "" \/ st = NoState THEN "missing"
    ELSE IF InvalidSession(store, route, st, t) THEN "invalid_session"
    ELSE "accept"

(* mutant: the entry is deleted as soon as it is looked up *)
StoreAfterCallbackAlways(store, st, verdict) == StoreDelete(store, st)

(* the registry after the callback's checks: pkceStore.delete(state) is    *)
(* reached only when none of the checks has returned                       *)
StoreAfterCallback(store, st, verdict) ==
    IF verdict = "accept" THEN StoreDelete(store, st) ELSE store

(* the page the callback ends with, by what the token endpoint answered *)
FinishResponse(b, outcome) ==
    IF outcome = "ok" THEN "connected"
    ELSE IF outcome = "http_error" THEN "exchange_failed"
    ELSE ThrownResponse(b)

(* mutant: tokenRes.ok is not looked at before the settings are written *)
FileAfterFinishAlways(f, key, outcome, token, t) ==
    WriteSettings(SaveToken(GetSettings(f), key, token, t))

(* the settings file after the callback's last part: mutateSettings runs   *)
(* only when tokenRes.ok and tokenRes.json() succeeded                     *)
FileAfterFinish(f, key, outcome, token, t) ==
    IF outcome = "ok"
    THEN WriteSettings(SaveToken(GetSettings(f), key, token, t))
    ELSE f

(* the backup file after the callback's last part *)
BakAfterFinish(f, b, outcome) ==
    IF outcome = "ok" THEN BakAfterGet(f, b) ELSE b

(* a mutateSettings call of another process that has not begun *)
WorkerIdle == [pc |-> "idle", settings |-> EmptyDoc]

----------------------------------------------------------------------------
Init ==
    /\ build \in {"auth", "config"}
    /\ now = 0
    /\ ticks = 0
    /\ pkceStore = EmptyStore
    /\ issued = {}
    /\ inflight = {}
    /\ exchanges = [s \in States |-> 0]
    /\ file \in InitFiles
    /\ bak = MissingFile
    /\ last = Idle
    /\ out = NoMessage
    /\ worker = WorkerIdle

(* time passes *)
Tick(d) ==
    /\ last = Idle
    /\ ticks < MaxTicks
    /\ ticks' = ticks + 1
    /\ now' = now + d
    /\ UNCHANGED <<build, pkceStore, issued, inflight, exchanges, file, bak, last, out, worker>>

(* mutant: a state drawn before is drawn again *)
FreshStateReused == IF issued = {} THEN Cardinality(issued) + 1 ELSE CHOOSE s \in issued : TRUE

(* generateState(): a token no earlier start has drawn *)
FreshState == Cardinality(issued) + 1

(* GET /api/auth/<route>/start *)
Start(route) ==
    /\ last = Idle
    /\ route \in Routes(build)
    /\ Cardinality(issued) < MaxStarts
    /\ LET st == FreshState
           verifier == VerifierOf(st)
           entry == NewEntry(route, verifier, now)
       IN  /\ pkceStore' = StoreSet(CleanExpired(pkceStore, now), st, entry)
           /\ issued' = issued \cup {st}
           /\ last' = Response("url", route, st, "")
           /\ out' = AuthUrl(route, st, verifier)
    /\ UNCHANGED <<build, now, ticks, inflight, exchanges, file, bak, worker>>

(* GET /api/auth/<route>/callback, up to the await of fetch *)
CallbackBegin(route, code, st, error) ==
    /\ last = Idle
    /\ route \in Routes(build)
    /\ LET verdict == Verdict(pkceStore, route, code, st, error, now)
       IN  IF verdict = "accept"
           THEN /\ pkceStore' = StoreAfterCallback(pkceStore, st, verdict)
                /\ inflight' = inflight \cup
                      {[route |-> route, st |-> st, code |-> code,
                        verifier |-> pkceStore[st].verifier]}
                /\ exchanges' = [exchanges EXCEPT ![st] = @ + 1]
                /\ last' = Response("awaiting_token", route, st, code)
                /\ out' = TokenRequest(route, code, st, pkceStore[st])
           ELSE /\ pkceStore' = StoreAfterCallback(pkceStore, st, verdict)
                /\ last' = Response(verdict, route, st, code)
                /\ out' = Page(error)
                /\ UNCHANGED <<inflight, exchanges>>
    /\ UNCHANGED <<build, now, ticks, issued, file, bak, worker>>

(* the rest of the callback, once the token endpoint has answered *)
CallbackFinish(req, outcome, token) ==
    /\ last = Idle
    /\ req \in inflight
    /\ inflight' = inflight \ {req}
    /\ file' = FileAfterFinish(file, SettingKey(req.route), outcome, token, now)
    /\ bak' = BakAfterFinish(file, bak, outcome)
    /\ last' = Response(FinishResponse(build, outcome), req.route, req.st, req.code)
    /\ out' = Page("")
    /\ UNCHANGED <<build, now, ticks, pkceStore, issued, exchanges, worker>>

(* GET /api/auth/<route>/status *)
Status(route) ==
    /\ last = Idle
    /\ route \in Routes(build)
    /\ last' = Response("status", route, NoState, "")
    /\ out' = Page("")
    /\ file' = FileAfterGet(file)
    /\ bak' = BakAfterGet(file, bak)
    /\ UNCHANGED <<build, now, ticks, pkceStore, issued, inflight, exchanges, worker>>

(* mutant: disconnect also drops the provider's sessions and the callbacks *)
(* of the provider that wait for the token endpoint                        *)
DisconnectCancels(route) ==
    /\ last = Idle
    /\ route \in Routes(build)
    /\ file' = WriteSettings(ClearCredentials(GetSettings(file), SettingKey(route), build))
    /\ bak' = BakAfterGet(file, bak)
    /\ last' = Response("disconnected", route, NoState, "")
    /\ out' = Page("")
    /\ pkceStore' = [k \in {x \in DOMAIN pkceStore : pkceStore[x].provider # route}
                        |-> pkceStore[k]]
    /\ inflight' = {r \in inflight : r.route # route}
    /\ UNCHANGED <<build, now, ticks, issued, exchanges, worker>>

(* DELETE /api/auth/<route>/disconnect *)
Disconnect(route) ==
    /\ last = Idle
    /\ route \in Routes(build)
    /\ file' = WriteSettings(ClearCredentials(GetSettings(file), SettingKey(route), build))
    /\ bak' = BakAfterGet(file, bak)
    /\ last' = Response("disconnected", route, NoState, "")
    /\ out' = Page("")
    /\ UNCHANGED <<build, now, ticks, pkceStore, issued, inflight, exchanges, worker>>

(* the handler has returned or is suspended at an await: the event loop    *)
(* takes the next event                                                    *)
EventLoop ==
    /\ last # Idle
    /\ last' = Idle
    /\ out' = NoMessage
    /\ UNCHANGED <<build, now, ticks, pkceStore, issued, inflight, exchanges, file, bak, worker>>

Next ==
    \/ EventLoop
    \/ \E d \in TickSteps : Tick(d)
    \/ \E route \in Routes(build) : Start(route)
    \/ \E route \in Routes(build), code \in Codes, st \in {NoState} \cup States, error \in Errors :
          AtMostOneFlaw(code, st, error) /\ CallbackBegin(route, code, st, error)
    \/ \E req \in inflight, token \in Tokens : CallbackFinish(req, "ok", token)
    \/ \E req \in inflight, outcome \in Outcomes \ {"ok"} : CallbackFinish(req, outcome, NoToken)
    \/ \E route \in Routes(build) : Status(route)
    \/ \E route \in Routes(build) : Disconnect(route)

Spec == Init /\ [][Next]_vars

----------------------------------------------------------------------------
(* The broker beside another process that calls mutateSettings.  Inside    *)
(* one process mutateSettings runs to its end without yielding; between    *)
(* two processes its read and its write are two steps.                     *)

(* fn(settings) of the other process: a change outside the models section *)
WorkerFn(settings) == [settings EXCEPT !.other = "worker"]

(* mutant: the document is read again when it is written *)
MutateWriteFileReread(settings, f) == WriteSettings(WorkerFn(GetSettings(f)))

(* mutateSettings, lines 79-80: the settings read earlier, changed by fn,  *)
(* replace the file f whatever it holds by now                             *)
MutateWriteFile(settings, f) == WriteSettings(WorkerFn(settings))

(* mutateSettings, line 78: const settings = getSettings() *)
WorkerRead ==
    /\ last = Idle
    /\ worker.pc = "idle"
    /\ worker' = [pc |-> "read", settings |-> GetSettings(file)]
    /\ file' = FileAfterGet(file)
    /\ bak' = BakAfterGet(file, bak)
    /\ UNCHANGED <<build, now, ticks, pkceStore, issued, inflight, exchanges, last, out>>

(* mutateSettings, lines 79-80: fn(settings); fs.writeFileSync(...).  The  *)
(* other process does not wait for the broker's event loop.                *)
WorkerWrite ==
    /\ worker.pc = "read"
    /\ file' = MutateWriteFile(worker.settings, file)
    /\ worker' = [pc |-> "done", settings |-> EmptyDoc]
    /\ UNCHANGED <<build, now, ticks, pkceStore, issued, inflight, exchanges, bak, last, out>>

InitRace ==
    /\ Init
    /\ file = JsonFile(KeyDoc)

NextRace ==
    \/ Next
    \/ WorkerRead
    \/ WorkerWrite

SpecRace == InitRace /\ [][NextRace]_vars

----------------------------------------------------------------------------
(* The broker beside an editor of the settings file *)

(* PUT /api/settings from the dashboard, or an editor saving the file,     *)
(* while a callback is waiting for the token endpoint (an edit at any      *)
(* other time is a different file for the next request to find)            *)
ExternalEdit(f) ==
    /\ last = Idle
    /\ inflight # {}
    /\ file # f
    /\ file' = f
    /\ last' = Response("settings_saved", "", NoState, "")
    /\ out' = Page("")
    /\ UNCHANGED <<build, now, ticks, pkceStore, issued, inflight, exchanges, bak, worker>>

NextExternal ==
    \/ Next
    \/ \E f \in ExternalFiles : ExternalEdit(f)

SpecExternal == Init /\ [][NextExternal]_vars

----------------------------------------------------------------------------
(* The broker beside the dashboard's API-key field *)

(* what the operator types into the key field: a key with blanks around   *)
(* it, or blanks only                                                      *)
TypedKeys == { <<" ", "K3", " ">>, <<" ", "", " ">> }

(* apiKey.trim() *)
Trim(typed) == typed[2]

(* mutant: the key is sent without auth_method *)
KeyPatchKeyOnly(route, typed) ==
    [models |-> [EmptyModels EXCEPT ![SettingKey(route)] =
                    Obj([EmptyFields EXCEPT !.apiKey = Str(Trim(typed))])]]

(* handleSaveKey: { models: { [settingKey]: { apiKey: apiKey.trim(),       *)
(* auth_method: "api_key" } } }                                            *)
KeyPatch(route, typed) ==
    [models |-> [EmptyModels EXCEPT ![SettingKey(route)] =
                    Obj([EmptyFields EXCEPT !.apiKey = Str(Trim(typed)),
                                            !.auth_method = Str("api_key")])]]

(* a partial document merged shallowly: each top-level key it has replaces *)
(* that key of the document                                                *)
MergeShallow(doc, partial) ==
    [k \in DOMAIN doc |-> IF k \in DOMAIN partial THEN partial[k] ELSE doc[k]]

(* PUT /api/settings: the persisted document, merged with the body, is     *)
(* written back                                                            *)
PutSettings(f, partial) == WriteSettings(MergeShallow(GetSettings(f), partial))

(* handleSaveKey: nothing is sent for an empty key; the refresh() after    *)
(* the PUT is a status request that finds the file just written            *)
SaveKey(route, typed) ==
    /\ last = Idle
    /\ route \in Routes(build)
    /\ Trim(typed) # ""
    /\ file' = PutSettings(file, KeyPatch(route, typed))
    /\ bak' = BakAfterGet(file, bak)
    /\ last' = Response("key_saved", route, NoState, "")
    /\ out' = Page("")
    /\ UNCHANGED <<build, now, ticks, pkceStore, issued, inflight, exchanges, worker>>

NextDashboard ==
    \/ Next
    \/ \E route \in Routes(build), typed \in TypedKeys : SaveKey(route, typed)

SpecDashboard == Init /\ [][NextDashboard]_vars

----------------------------------------------------------------------------
(* The broker restarted *)

(* mutant: the registry outlives the process *)
StoreAfterRestartKept(store) == store

(* const pkceStore = new Map(): built empty when the module is loaded,     *)
(* written nowhere but in memory                                           *)
StoreAfterRestart(store) == EmptyStore

(* the process ends and is started again: the registry and the callbacks   *)
(* that wait for the token endpoint are gone, the files and the clock are  *)
(* not                                                                     *)
Restart ==
    /\ last = Idle
    /\ pkceStore # EmptyStore \/ inflight # {}
    /\ pkceStore' = StoreAfterRestart(pkceStore)
    /\ inflight' = {}
    /\ UNCHANGED <<build, now, ticks, issued, exchanges, file, bak, last, out, worker>>

NextRestart ==
    \/ Next
    \/ Restart

SpecRestart == Init /\ [][NextRestart]_vars

----------------------------------------------------------------------------
(* The broker on an installation that holds no credential yet *)

(* no settings file, or the one the start script writes *)
CleanFiles == { MissingFile, JsonFile(RailwayDoc) }

InitClean ==
    /\ Init
    /\ file \in CleanFiles

SpecClean == InitClean /\ [][Next]_vars

----------------------------------------------------------------------------
(* Properties *)

(* The steps of the handlers, told by the request that last' records: the *)
(* first conjuncts follow from the action and only spare its evaluation    *)
(* for every other request.                                                *)
StartStep(route) ==
    /\ last'.resp = "url"
    /\ last'.route = route
    /\ Start(route)

CallbackBeginStep(route, code, st, error) ==
    /\ last'.route = route
    /\ last'.st = st
    /\ last'.code = code
    /\ CallbackBegin(route, code, st, error)

CallbackFinishStep(req, outcome, token) ==
    /\ last'.resp = FinishResponse(build, outcome)
    /\ last'.st = req.st
    /\ CallbackFinish(req, outcome, token)

StatusStep(route) ==
    /\ last'.resp = "status"
    /\ last'.route = route
    /\ Status(route)

DisconnectStep(route) ==
    /\ last'.resp = "disconnected"
    /\ last'.route = route
    /\ Disconnect(route)

(* the registry holds, under st, a session of this route that has not expired *)
LiveSession(store, t, route, st) ==
    /\ st \in DOMAIN store
    /\ store[st].provider = route
    /\ store[st].expiresAt >= t

SubRecord(f, route) == f.doc.models[SettingKey(route)].f

NotConnected == [connected |-> FALSE, method |-> Null]

ConnectedByOAuth == [connected |-> TRUE, method |-> Str("oauth")]

(* C1: the session a start creates stays in the registry while it has not  *)
(* expired, the first callback that carries its state and a code, without  *)
(* an error parameter, on its provider's route is accepted, and every      *)
(* later callback carrying that state is rejected: none issues an          *)
(* exchange, and one with a code and no error parameter gets the           *)
(* invalid/expired-session page, whatever became of the first exchange.    *)
C1_SingleUse ==
    [][ /\ \A route \in AllRoutes :
              StartStep(route) => LiveSession(pkceStore', now', route, last'.st)
        /\ \A st \in DOMAIN pkceStore :
              pkceStore[st].expiresAt >= now' =>
                  \/ st \in DOMAIN pkceStore' /\ pkceStore'[st] = pkceStore[st]
                  \/ exchanges'[st] = exchanges[st] + 1
        /\ \A route \in AllRoutes, st \in States :
              CallbackBeginStep(route, "c1", st, "") /\ LiveSession(pkceStore, now, route, st) =>
                  /\ last'.resp = "awaiting_token"
                  /\ exchanges'[st] = exchanges[st] + 1
        /\ \A route \in AllRoutes, code \in Codes, st \in States, error \in Errors :
              CallbackBeginStep(route, code, st, error) /\ exchanges[st] >= 1 =>
                  /\ exchanges' = exchanges
                  /\ inflight' = inflight
                  /\ (code # "" /\ error = "" => last'.resp = "invalid_session")
      ]_vars

(* a callback with a code and an accepted state has just been rejected *)
C1_Replayed ==
    /\ last.resp = "invalid_session"
    /\ last.code # ""
    /\ last.st \in States
    /\ exchanges[last.st] = 1
    /\ \A req \in inflight : req.st # last.st

(* C2: at most one token-exchange request is ever issued per state token.  *)
C2_AtMostOneExchange == \A st \in States : exchanges[st] <= 1

(* a replayed callback has just been rejected while the first one is still *)
(* awaiting the token endpoint                                             *)
C2_ReplayWhileAwaiting ==
    /\ last.resp = "invalid_session"
    /\ last.code # ""
    /\ \E req \in inflight : req.st = last.st /\ req.route = last.route
    /\ exchanges[last.st] = 1

(* C3: a callback whose state names an entry of its own provider whose     *)
(* expiresAt has passed gets the invalid/expired-session page; no exchange *)
(* is issued and the settings are not written, although the entry is still *)
(* in the registry.                                                        *)
C3_ExpiredRejected ==
    [][ \A route \in AllRoutes, st \in States :
            ( /\ CallbackBeginStep(route, "c1", st, "")
              /\ st \in DOMAIN pkceStore
              /\ pkceStore[st].provider = route
              /\ pkceStore[st].expiresAt < now ) =>
                /\ last'.resp = "invalid_session"
                /\ UNCHANGED <<inflight, exchanges, file, bak>>
      ]_vars

C3_ExpiredUnswept ==
    /\ last.resp = "invalid_session"
    /\ last.code # ""
    /\ last.st \in DOMAIN pkceStore
    /\ pkceStore[last.st].provider = last.route
    /\ pkceStore[last.st].expiresAt < now

(* C4: disconnect(P) immediately followed by status(P) answers             *)
(* { connected: false, method: null }, whatever the document was.          *)
C4_DisconnectThenStatus ==
    [][ \A route \in AllRoutes :
            DisconnectStep(route) => StatusResult(file', route) = NotConnected
      ]_vars

(* C5: disconnect(P) removes oauth_token, oauth_refresh_token,             *)
(* oauth_expires_at, auth_method and apiKey from P's sub-record of the     *)
(* persisted document.                                                     *)
C5_DisconnectRemovesAll ==
    [][ \A route \in AllRoutes :
            DisconnectStep(route) =>
                \A k \in {"oauth_token", "oauth_refresh_token", "oauth_expires_at",
                          "auth_method", "apiKey"} :
                    SubRecord(file', route)[k] = Absent
      ]_vars

(* C6: when the exchange of an accepted callback of P succeeds with an     *)
(* access token and expires_in = 3600, status(P) is then                   *)
(* { connected: true, method: "oauth" } and the stored oauth_expires_at is *)
(* the time of the callback's write + 3600000.                             *)
C6_EndToEnd ==
    [][ \A req \in inflight, token \in Tokens :
            ( /\ CallbackFinishStep(req, "ok", token)
              /\ Truthy(token.access_token)
              /\ token.expires_in = Num(3600) ) =>
                /\ req.st \in issued
                /\ StatusResult(file', req.route) = ConnectedByOAuth
                /\ SubRecord(file', req.route).oauth_expires_at = Num(now + 3600000)
      ]_vars

C6_Connected ==
    /\ last.resp = "connected"
    /\ last.st \in issued
    /\ StatusResult(file, last.route) = ConnectedByOAuth
    /\ SubRecord(file, last.route).oauth_expires_at = Num(now + 3600000)

(* C7: a successful exchange writes, under P's sub-record, oauth_token =   *)
(* the access token received, oauth_refresh_token = the refresh token      *)
(* received or null, oauth_expires_at = now + the reported lifetime in ms, *)
(* and auth_method = "oauth".                                              *)
C7_TokenFieldsWritten ==
    [][ \A req \in inflight, token \in Tokens :
            CallbackFinishStep(req, "ok", token) /\ token.access_token.t = "str" =>
                LET f == SubRecord(file', req.route)
                IN  /\ file'.kind = "json"
                    /\ f.oauth_token = token.access_token
                    /\ f.oauth_refresh_token =
                          (IF token.refresh_token.t = "str" THEN token.refresh_token ELSE Null)
                    /\ (token.expires_in.t = "num" =>
                          f.oauth_expires_at = Num(now + token.expires_in.n * 1000))
                    /\ f.auth_method = Str("oauth")
      ]_vars

(* C8: a callback writes the settings only after a successful exchange: a  *)
(* non-success response, a transport failure or an unreadable body leaves  *)
(* the settings file and its backup as they were, and so does the part of  *)
(* the callback before the exchange.                                       *)
C8_FailedExchangeWritesNothing ==
    [][ /\ \A req \in inflight, outcome \in Outcomes \ {"ok"} :
              CallbackFinishStep(req, outcome, NoToken) => file' = file /\ bak' = bak
        /\ \A route \in AllRoutes, code \in Codes, st \in {NoState} \cup States, error \in Errors :
              CallbackBeginStep(route, code, st, error) => file' = file /\ bak' = bak
      ]_vars

C8_ExchangeFailed ==
    /\ last.resp \in {"exchange_failed", "error_page", "exception"}
    /\ last.st \in issued
    /\ exchanges[last.st] = 1

(* C9: a callback whose state is absent from the registry, belongs to the  *)
(* other provider or is past expiry gets the same invalid/expired-session  *)
(* page in all three cases, issues no exchange and leaves the settings     *)
(* unchanged.                                                              *)
C9_InvalidSessionUniform ==
    [][ \A route \in AllRoutes, st \in States :
            ( /\ CallbackBeginStep(route, "c1", st, "")
              /\ \/ st \notin DOMAIN pkceStore
                 \/ pkceStore[st].provider # route
                 \/ pkceStore[st].expiresAt < now ) =>
                /\ last' = Response("invalid_session", route, st, "c1")
                /\ UNCHANGED <<inflight, exchanges, file, bak>>
      ]_vars

(* a callback on the other provider's route has just been rejected *)
C9_WrongProvider ==
    /\ last.resp = "invalid_session"
    /\ last.code # ""
    /\ last.st \in DOMAIN pkceStore
    /\ pkceStore[last.st].provider # last.route
    /\ pkceStore[last.st].expiresAt >= now

(* C10: a callback with an error parameter gets the failure page, issues   *)
(* no exchange and does not write the settings, also when it carries a     *)
(* code and the state of a live session of its provider.                   *)
C10_ErrorParameter ==
    [][ \A route \in AllRoutes, code \in Codes, st \in {NoState} \cup States, error \in Errors :
            CallbackBeginStep(route, code, st, error) /\ error # "" =>
                /\ last'.resp = "auth_failed"
                /\ UNCHANGED <<inflight, exchanges, file, bak>>
      ]_vars

C10_ErrorWithLiveSession ==
    /\ last.resp = "auth_failed"
    /\ last.code # ""
    /\ LiveSession(pkceStore, now, last.route, last.st)

(* C11: the code_verifier in the token request of an accepted callback    *)
(* with state S is the verifier that the start call creating S generated   *)
(* and stored, and nothing sent to the browser (the authorization URL, a   *)
(* callback page, a status or disconnect answer) carries a verifier.       *)
C11_VerifierOnlyInExchange ==
    [][ /\ \A route \in AllRoutes :
              StartStep(route) => pkceStore'[last'.st].verifier = VerifierOf(last'.st)
        /\ \A route \in AllRoutes, st \in States :
              CallbackBeginStep(route, "c1", st, "") /\ last'.resp = "awaiting_token" =>
                  /\ out'.to = "token_endpoint"
                  /\ out'.code_verifier = VerifierOf(st)
                  /\ out'.code_verifier = pkceStore[st].verifier
        /\ out'.to = "browser" =>
              \A st \in States :
                  VerifierOf(st) \notin {out'.code_verifier, out'.code_challenge, out'.state}
      ]_vars

(* the second session's callback has just sent its token request *)
C11_ExchangeSent ==
    /\ last.resp = "awaiting_token"
    /\ last.st = MaxStarts
    /\ out.to = "token_endpoint"
    /\ out.code_verifier = VerifierOf(last.st)

(* C12: the authorization URL start answers with carries                   *)
(* code_challenge_method=S256, the state under which the session was just  *)
(* stored, and as code_challenge the base64url SHA-256 digest of the       *)
(* verifier the registry holds for that state.                             *)
C12_AuthorizationUrl ==
    [][ \A route \in AllRoutes :
            StartStep(route) =>
                /\ out'.to = "browser"
                /\ out'.code_challenge_method = "S256"
                /\ out'.state \notin DOMAIN pkceStore
                /\ out'.state \in DOMAIN pkceStore'
                /\ pkceStore'[out'.state].provider = route
                /\ out'.code_challenge = Base64Url(Sha256(pkceStore'[out'.state].verifier))
      ]_vars

(* a start has just answered while another session is in the registry *)
C12_UrlReturned ==
    /\ last.resp = "url"
    /\ out.state = last.st
    /\ Cardinality(DOMAIN pkceStore) = 2
    /\ out.code_challenge = Base64Url(Sha256(pkceStore[out.state].verifier))

(* C13: status(P).connected is true exactly when P's sub-record of the    *)
(* current document holds an oauth_token or an apiKey; a document without  *)
(* a models section or without a sub-record for P holds neither.           *)
C13_ConnectedIff ==
    [][ \A route \in AllRoutes :
            StatusStep(route) =>
                LET f == SubRecord(file, route)
                IN  StatusResult(file, route).connected <=>
                        (f.oauth_token # Absent \/ f.apiKey # Absent)
      ]_vars

(* status has just answered connected for a sub-record with a key and no token *)
C13_ConnectedByKeyOnly ==
    /\ last.resp = "status"
    /\ StatusResult(file, last.route).connected
    /\ SubRecord(file, last.route).oauth_token = Absent
    /\ SubRecord(file, last.route).apiKey # Absent

(* C14: status(P).method is the stored auth_method when there is one, else *)
(* "api_key" when an apiKey is stored, else null.                          *)
C14_MethodDerivation ==
    [][ \A route \in AllRoutes :
            StatusStep(route) =>
                LET f == SubRecord(file, route)
                IN  StatusResult(file, route).method =
                        IF f.auth_method # Absent THEN f.auth_method
                        ELSE IF f.apiKey # Absent THEN Str("api_key")
                        ELSE Null
      ]_vars

(* status has just answered "api_key" for a key stored without a method *)
C14_MethodFromKey ==
    /\ last.resp = "status"
    /\ StatusResult(file, last.route).method = Str("api_key")
    /\ SubRecord(file, last.route).auth_method = Absent

(* C15: status(P) has no side effect, whatever the settings file holds:  *)
(* it writes neither the settings file nor a backup file and leaves the    *)
(* PKCE registry alone.                                                    *)
C15_StatusSideEffectFree ==
    [][ \A route \in AllRoutes :
            StatusStep(route) => UNCHANGED <<file, bak, pkceStore, inflight>>
      ]_vars

(* C16: when the settings file does not parse but can be repaired, load   *)
(* returns the repaired document (models.provider possibly inferred), the  *)
(* backup file then holds the original bytes, copied before the settings   *)
(* file was overwritten, and the settings file holds the re-serialized     *)
(* repaired document, in every operation that loads.                       *)
C16_RepairWithBackup ==
    [][ file.kind = "broken" =>
          /\ [GetSettings(file) EXCEPT !.models.provider = file.doc.models.provider] = file.doc
          /\ \A route \in AllRoutes :
                StatusStep(route) => bak' = file /\ file' = JsonFile(file.doc)
          /\ \A route \in AllRoutes :
                DisconnectStep(route) => bak' = file /\ file'.kind = "json"
          /\ \A req \in inflight, token \in Tokens :
                CallbackFinishStep(req, "ok", token) => bak' = file /\ file'.kind = "json"
          /\ (file' # file \/ bak' # bak) => bak' = file
      ]_vars

(* a status request has just repaired the file: the backup holds the       *)
(* near-valid text, the settings file the document it repairs to           *)
C16_Repaired ==
    /\ last.resp = "status"
    /\ bak.kind = "broken"
    /\ file = JsonFile(bak.doc)

(* C17: when the settings file is missing or unreadable, or neither       *)
(* parses nor can be repaired, load returns the empty document and its     *)
(* caller goes on with it: status answers not connected and writes         *)
(* nothing, disconnect and a successful callback write their transform of  *)
(* the empty document.                                                     *)
C17_EmptyDocumentOnFailure ==
    [][ file.kind \in {"missing", "garbage"} =>
          /\ GetSettings(file) = EmptyDoc
          /\ \A route \in AllRoutes :
                StatusStep(route) =>
                    /\ last'.resp = "status"
                    /\ StatusResult(file, route) = NotConnected
                    /\ UNCHANGED <<file, bak>>
          /\ \A route \in AllRoutes :
                DisconnectStep(route) =>
                    /\ last'.resp = "disconnected"
                    /\ file' = JsonFile(EmptyDoc)
                    /\ bak' = bak
          /\ \A req \in inflight, token \in Tokens :
                CallbackFinishStep(req, "ok", token) =>
                    /\ last'.resp = "connected"
                    /\ file' = JsonFile(SaveToken(EmptyDoc, SettingKey(req.route), token, now))
                    /\ bak' = bak
      ]_vars

(* status has just answered from a file that cannot be repaired *)
C17_UnreadableLoaded ==
    /\ last.resp = "status"
    /\ file.kind = "garbage"
    /\ bak = MissingFile

(* C18: the document load returns has models.provider "openai" when the  *)
(* stored document sets none and has an openai sub-record, else "opencode" *)
(* when it has an opencode sub-record, else "anthropic" when it has an     *)
(* anthropic sub-record, else none; a provider the stored document sets is *)
(* returned as it is.  Disconnect writes the document load returned.       *)
C18_ProviderDetection ==
    [][ \A route \in AllRoutes :
            StatusStep(route) \/ DisconnectStep(route) =>
                LET m == file.doc.models
                    expected == IF m.provider # Absent THEN m.provider
                                ELSE IF m.openai.t = "obj" THEN Str("openai")
                                ELSE IF m.opencode.t = "obj" THEN Str("opencode")
                                ELSE IF m.anthropic.t = "obj" THEN Str("anthropic")
                                ELSE Absent
                IN  /\ GetSettings(file).models.provider = expected
                    /\ DisconnectStep(route) => file'.doc.models.provider = expected
      ]_vars

(* a disconnect has just written a document whose provider was inferred    *)
(* from an opencode sub-record standing beside an anthropic one            *)
C18_OpencodeInferred ==
    /\ last.resp = "disconnected"
    /\ file.doc.models.provider = Str("opencode")
    /\ file.doc.models.anthropic.t = "obj"
    /\ file.doc.models.openai.t = "absent"

(* C19: every callback ends by answering an HTML page, on every failure   *)
(* path (error parameter, missing code or state, invalid session,          *)
(* non-success token response, token request failing in transport): no     *)
(* exception escapes the handler.                                          *)
C19_CallbackAlwaysAnswers ==
    [][ /\ \A route \in AllRoutes, code \in Codes, st \in {NoState} \cup States, error \in Errors :
              CallbackBeginStep(route, code, st, error) =>
                  last'.resp \in {"auth_failed", "missing", "invalid_session", "awaiting_token"}
        /\ \A req \in inflight, outcome \in Outcomes, token \in Tokens \cup {NoToken} :
              CallbackFinishStep(req, outcome, token) =>
                  last'.resp \in {"connected", "exchange_failed", "error_page"}
      ]_vars

(* C20: the callback reads the settings only after the exchange has       *)
(* succeeded: what its write leaves is the document the file held at that  *)
(* moment, an edit that landed during the wait included, with P's four     *)
(* OAuth fields set; everything else of the document is as the file had    *)
(* it (models.provider is added when the file set none).                   *)
C20_EditDuringExchangeKept ==
    [][ \A req \in inflight, token \in Tokens :
            CallbackFinishStep(req, "ok", token) /\ file.kind \in {"json", "broken"} =>
                LET key == SettingKey(req.route)
                    before == file.doc
                    after == file'.doc
                IN  /\ after.other = before.other
                    /\ \A k \in {"anthropic", "openai", "opencode"} \ {key} :
                          after.models[k] = before.models[k]
                    /\ before.models.provider # Absent =>
                          after.models.provider = before.models.provider
                    /\ \A k \in {"apiKey", "model"} :
                          after.models[key].f[k] = before.models[key].f[k]
                    /\ after.models[key].f.auth_method = Str("oauth")
      ]_vars

(* the only exchange ever issued has just succeeded, and the document      *)
(* written holds the edit that landed while it was in flight               *)
C20_EditKept ==
    /\ last.resp = "connected"
    /\ \A st \in States : exchanges[st] = 1 => st = last.st
    /\ file.doc.other = "edited"
    /\ SubRecord(file, last.route).apiKey = Str("K2")
    /\ SubRecord(file, last.route).oauth_token = Str("T1")
    /\ SubRecord(file, last.route).auth_method = Str("oauth")

(* C21: mutateSettings is not isolated.  What a call of another process   *)
(* writes is the document it read, changed by its fn: the models section   *)
(* of the file after its write is the one it read, whatever a callback or  *)
(* a disconnect wrote there between its read and its write.                *)
C21_LastWriterWins ==
    [][ WorkerWrite =>
          /\ file'.kind = "json"
          /\ file'.doc.models = JsonDoc(worker.settings).models
          /\ file'.doc.other = "worker"
      ]_vars

(* a callback has just answered that the provider is connected, and the    *)
(* write of the other process, which read before, has removed its token    *)
C21_TokenLost ==
    /\ last.resp = "connected"
    /\ worker.pc = "done"
    /\ file.doc.other = "worker"
    /\ SubRecord(file, last.route).oauth_token = Absent
    /\ SubRecord(file, last.route).auth_method # Str("oauth")

(* C22: the redirect_uri of a token request is the redirect_uri of the     *)
(* authorization URL that the start of the same session answered with:     *)
(* a start sends the callback address of the provider it files the         *)
(* session under, and an accepted callback sends the callback address of   *)
(* the provider its session is filed under.                                *)
C22_SameRedirectUri ==
    [][ /\ \A route \in AllRoutes :
              StartStep(route) =>
                  /\ out'.to = "browser"
                  /\ out'.state \in DOMAIN pkceStore'
                  /\ out'.redirect_uri = RedirectUri(pkceStore'[out'.state].provider)
        /\ \A route \in AllRoutes, st \in States :
              CallbackBeginStep(route, "c1", st, "") /\ last'.resp = "awaiting_token" =>
                  /\ out'.to = "token_endpoint"
                  /\ out'.redirect_uri = RedirectUri(pkceStore[st].provider) ]_vars

(* a token request of a session of the second provider is on its way *)
C22_ExchangeOfSecondProvider ==
    /\ last.resp = "awaiting_token"
    /\ last.route # "claude"
    /\ out.to = "token_endpoint"
    /\ out.redirect_uri = RedirectUri(last.route)
    /\ out.redirect_uri # RedirectUri("claude")

(* C23: a successful exchange for a provider leaves the apiKey and the     *)
(* model of the provider's sub-record as the settings file had them, and   *)
(* the status of the provider then names the method "oauth".               *)
C23_KeyKeptMethodOAuth ==
    [][ \A req \in inflight, token \in Tokens :
          CallbackFinishStep(req, "ok", token) =>
              /\ StatusResult(file', req.route).method = Str("oauth")
              /\ (file.kind \in {"json", "broken"} /\ file.doc.models.t = "obj"
                     /\ SubTruthy(file.doc.models[SettingKey(req.route)])) =>
                      /\ SubRecord(file', req.route).apiKey = SubRecord(file, req.route).apiKey
                      /\ SubRecord(file', req.route).model = SubRecord(file, req.route).model ]_vars

(* a provider that had a key has been connected by OAuth and has the key still *)
C23_KeyBesideToken ==
    /\ last.resp = "connected"
    /\ SubRecord(file, last.route).apiKey = Str("K")
    /\ Truthy(SubRecord(file, last.route).oauth_token)
    /\ StatusResult(file, last.route) = ConnectedByOAuth

(* C24: saving a key for a provider from the dashboard leaves the          *)
(* provider's sub-record with that key as apiKey and with auth_method      *)
(* "api_key", the status of the provider is then connected by "api_key",   *)
(* and the registry, the exchanges under way and the exchanges issued are  *)
(* what they were.                                                         *)
C24_KeyPath ==
    [][ \A route \in AllRoutes, typed \in TypedKeys :
          (last'.resp = "key_saved" /\ last'.route = route /\ SaveKey(route, typed)) =>
              /\ SubRecord(file', route).apiKey = Str(Trim(typed))
              /\ SubRecord(file', route).auth_method = Str("api_key")
              /\ StatusResult(file', route) = [connected |-> TRUE, method |-> Str("api_key")]
              /\ pkceStore' = pkceStore
              /\ inflight' = inflight
              /\ exchanges' = exchanges
              /\ issued' = issued ]_vars

(* a key has been saved while one session waits in the registry and the    *)
(* exchange of another is under way                                        *)
C24_KeySavedDuringFlows ==
    /\ last.resp = "key_saved"
    /\ pkceStore # EmptyStore
    /\ inflight # {}
    /\ SubRecord(file, last.route).apiKey = Str("K3")
    /\ StatusResult(file, last.route).method = Str("api_key")

(* C25: when a start has just answered, no entry of the registry has an    *)
(* expiresAt that has passed, and the entry under the state it returned    *)
(* has the provider of the route and expiresAt ten minutes after now.      *)
C25_StartSweepsThenAdds ==
    last.resp = "url" =>
        /\ \A k \in DOMAIN pkceStore : pkceStore[k].expiresAt >= now
        /\ last.st \in DOMAIN pkceStore
        /\ pkceStore[last.st].provider = last.route
        /\ pkceStore[last.st].expiresAt = now + 10 * 60 * 1000

(* a start has just swept a session that expired without a callback *)
C25_ExpiredSwept ==
    /\ last.resp = "url"
    /\ \E st \in issued : st \notin DOMAIN pkceStore /\ exchanges[st] = 0

(* C26: an entry of the registry stays as it is through every step but two: *)
(* the accepted callback that carries its state on its provider's route,   *)
(* and a start that finds its expiresAt passed.  A callback with a code,   *)
(* without an error parameter, on the provider's route, that finds the     *)
(* entry with its expiresAt not passed, is accepted.                       *)
C26_LeavesOnlyByCallbackOrExpiry ==
    [][ /\ \A st \in DOMAIN pkceStore :
              \/ st \in DOMAIN pkceStore' /\ pkceStore'[st] = pkceStore[st]
              \/ /\ last' = Response("awaiting_token", pkceStore[st].provider, st, "c1")
                 /\ pkceStore[st].expiresAt >= now
              \/ /\ last'.resp = "url"
                 /\ last'.st # st
                 /\ pkceStore[st].expiresAt < now
        /\ \A route \in AllRoutes, st \in DOMAIN pkceStore :
              ( /\ CallbackBeginStep(route, "c1", st, "")
                /\ pkceStore[st].provider = route
                /\ pkceStore[st].expiresAt >= now ) =>
                  /\ last'.resp = "awaiting_token"
                  /\ st \notin DOMAIN pkceStore' ]_vars

(* the callback of the first session is accepted at the very instant of    *)
(* its expiresAt, after a start at that instant has swept the registry     *)
C26_AcceptedAtTheLastInstant ==
    /\ last = Response("awaiting_token", last.route, 1, "c1")
    /\ now = 10 * 60 * 1000
    /\ 2 \in DOMAIN pkceStore
    /\ pkceStore[2].expiresAt = now + 10 * 60 * 1000

(* C27: a restart leaves the registry empty and the settings file as it    *)
(* was, and a callback with a code and a state that was issued but is not  *)
(* in the registry gets the invalid/expired-session page: no exchange is   *)
(* issued and the settings file is not written.                            *)
C27_RestartForgetsSessions ==
    [][ /\ Restart =>
              /\ pkceStore' = EmptyStore
              /\ file' = file
        /\ \A route \in AllRoutes, st \in issued :
              (CallbackBeginStep(route, "c1", st, "") /\ st \notin DOMAIN pkceStore) =>
                  /\ last'.resp = "invalid_session"
                  /\ out'.to = "browser"
                  /\ inflight' = inflight
                  /\ exchanges' = exchanges
                  /\ file' = file ]_vars

(* a state issued a moment ago, never used and not yet expired, is         *)
(* rejected: only a restart can have removed it                            *)
C27_RejectedAfterRestart ==
    /\ last.resp = "invalid_session"
    /\ last.code = "c1"
    /\ last.st \in issued
    /\ exchanges[last.st] = 0
    /\ now = 0
    /\ pkceStore = EmptyStore

(* C28: after a successful exchange the stored oauth_expires_at is null    *)
(* exactly when the token response reported no expires_in, and for every   *)
(* reported expires_in, 0 included, it is the time of the write plus       *)
(* expires_in * 1000.                                                      *)
C28_ExpiresAtNullIffUnreported ==
    [][ \A req \in inflight, token \in Tokens :
          CallbackFinishStep(req, "ok", token) =>
              LET stored == SubRecord(file', req.route).oauth_expires_at
              IN  /\ (stored = Null) <=> (token.expires_in.t # "num")
                  /\ token.expires_in.t = "num" =>
                        stored = Num(now + token.expires_in.n * 1000) ]_vars

(* C29: when the page of a failed exchange has been answered, the state of *)
(* that callback has had its one exchange; and a state that has had an     *)
(* exchange is not in the registry, so that a callback carrying it with a  *)
(* code gets the invalid/expired-session page on every route and no second *)
(* exchange is ever issued for it: a flow can complete only with the state *)
(* of a new start.                                                         *)
C29_FailedExchangeConsumes ==
    /\ last.resp = "exchange_failed" => exchanges[last.st] = 1
    /\ \A st \in States :
          exchanges[st] >= 1 =>
              /\ exchanges[st] = 1
              /\ st \notin DOMAIN pkceStore
              /\ \A route \in AllRoutes :
                    Verdict(pkceStore, route, "c1", st, "", now) = "invalid_session"

(* the token endpoint has refused the code of the second session while the *)
(* first session waits in the registry                                     *)
C29_FailedWhileOtherPending ==
    /\ last.resp = "exchange_failed"
    /\ last.st = 2
    /\ DOMAIN pkceStore = {1}
    /\ pkceStore[1].expiresAt >= now
    /\ Verdict(pkceStore, last.route, last.code, last.st, "", now) = "invalid_session"

(* C30: a callback that is rejected, for an error parameter, a missing     *)
(* code or state, the wrong provider or expiry, leaves the registry and    *)
(* the exchanges under way as they were; when the state it named has an    *)
(* entry whose expiresAt has not passed, a callback with a code and that   *)
(* state on the entry's own route would be accepted right after it.        *)
C30_RejectionKeepsRegistry ==
    [][ last'.resp \in {"auth_failed", "missing", "invalid_session"} =>
          /\ pkceStore' = pkceStore
          /\ inflight' = inflight
          /\ exchanges' = exchanges
          /\ (last'.st \in DOMAIN pkceStore /\ pkceStore[last'.st].expiresAt >= now) =>
                Verdict(pkceStore', pkceStore[last'.st].provider, "c1", last'.st, "", now')
                    = "accept" ]_vars

(* a callback without a code has been rejected and the session of the      *)
(* state it carried can still be completed                                 *)
C30_RejectedSessionStillUsable ==
    /\ last.resp = "missing"
    /\ last.code = ""
    /\ last.st \in DOMAIN pkceStore
    /\ Verdict(pkceStore, pkceStore[last.st].provider, "c1", last.st, "", now) = "accept"

(* C31: starting from a settings file without credentials, whenever the    *)
(* status of a provider names the method "oauth" it also says connected.   *)
C31_OAuthImpliesConnected ==
    \A route \in Routes(build) :
        StatusResult(file, route).method = Str("oauth") =>
            StatusResult(file, route).connected

(* C32: a disconnect leaves the registry and the callbacks that wait for   *)
(* the token endpoint as they were, and a callback of the same provider    *)
(* that waits, once it gets a success response with an access token,       *)
(* writes a document whose status for the provider is connected by         *)
(* "oauth".                                                                *)
C32_DisconnectCancelsNothing ==
    [][ \A route \in AllRoutes :
          DisconnectStep(route) =>
              /\ pkceStore' = pkceStore
              /\ inflight' = inflight
              /\ exchanges' = exchanges
              /\ \A req \in inflight', token \in Tokens :
                    (req.route = route /\ Truthy(token.access_token)) =>
                        StatusResult(FileAfterFinish(file', SettingKey(route), "ok", token, now'),
                                     route) = ConnectedByOAuth ]_vars

(* a provider has been disconnected while the callback of one of its       *)
(* sessions waits for the token endpoint and another session waits in the  *)
(* registry                                                                *)
C32_DisconnectedDuringFlow ==
    /\ last.resp = "disconnected"
    /\ StatusResult(file, last.route) = NotConnected
    /\ \E req \in inflight : req.route = last.route
    /\ \E st \in DOMAIN pkceStore :
          /\ pkceStore[st].provider = last.route
          /\ pkceStore[st].expiresAt >= now

(* C33: a start files its session under a state that no entry of the       *)
(* registry has and leaves every unexpired entry as it was, each unexpired *)
(* entry would be accepted on its provider's route, and after a success    *)
(* response has been handled the stored oauth_token is the access token of *)
(* that response, whatever was stored and whichever session it belongs to. *)
C33_SessionsCoexistLastResponseWins ==
    [][ /\ \A route \in AllRoutes :
              StartStep(route) =>
                  /\ last'.st \notin DOMAIN pkceStore
                  /\ \A st \in DOMAIN pkceStore :
                        pkceStore[st].expiresAt >= now =>
                            /\ st \in DOMAIN pkceStore'
                            /\ pkceStore'[st] = pkceStore[st]
                            /\ Verdict(pkceStore', pkceStore[st].provider, "c1", st, "", now')
                                  = "accept"
        /\ \A req \in inflight, token \in Tokens :
              CallbackFinishStep(req, "ok", token) =>
                  SubRecord(file', req.route).oauth_token =
                      (IF token.access_token.t = "str" THEN token.access_token ELSE Absent) ]_vars

(* two sessions of one provider were both accepted; the response of the    *)
(* second has been handled first and its token is stored, the exchange of  *)
(* the first is still under way                                            *)
C33_SecondAnsweredFirst ==
    /\ last.resp = "connected"
    /\ last.st = 2
    /\ SubRecord(file, last.route).oauth_token = Str("T2")
    /\ \E req \in inflight : req.st = 1 /\ req.route = last.route

(* the sub-records of the providers other than the route's *)
OtherKeys(route) == {"anthropic", "openai", "opencode"} \ {SettingKey(route)}

(* a successful callback or a disconnect of the route has just happened *)
MutationStep(route) ==
    \/ DisconnectStep(route)
    \/ \E req \in inflight, token \in Tokens :
          req.route = route /\ CallbackFinishStep(req, "ok", token)

(* C34: a successful callback or a disconnect of a provider, on a settings *)
(* file that holds a JSON document with a models section, leaves the other *)
(* providers' sub-records, models.provider, the other sections and the     *)
(* non-credential fields of the provider's own sub-record as they were,    *)
(* and a disconnect creates no sub-record for a provider that has none.    *)
C34_MutationFrame ==
    [][ \A route \in AllRoutes :
          (MutationStep(route) /\ file.kind = "json" /\ file.doc.models.t = "obj") =>
              /\ file'.doc.other = file.doc.other
              /\ \A k \in OtherKeys(route) : file'.doc.models[k] = file.doc.models[k]
              /\ file'.doc.models.provider = file.doc.models.provider
              /\ SubRecord(file', route).model = SubRecord(file, route).model
              /\ (last'.resp = "disconnected" /\ ~SubTruthy(file.doc.models[SettingKey(route)])) =>
                    ~SubTruthy(file'.doc.models[SettingKey(route)]) ]_vars

(* C35: saving a key for a provider from the dashboard, on a settings file *)
(* that holds a JSON document with a models section, leaves the other      *)
(* providers' sub-records, models.provider and the model field of the      *)
(* provider's own sub-record as they were, and the status of every other   *)
(* provider is what it was.                                                *)
C35_KeyPathFrame ==
    [][ \A route \in AllRoutes, typed \in TypedKeys :
          ( /\ last'.resp = "key_saved"
            /\ last'.route = route
            /\ SaveKey(route, typed)
            /\ file.kind = "json"
            /\ file.doc.models.t = "obj" ) =>
              /\ \A k \in OtherKeys(route) : file'.doc.models[k] = file.doc.models[k]
              /\ file'.doc.models.provider = file.doc.models.provider
              /\ SubRecord(file', route).model = SubRecord(file, route).model
              /\ \A other \in Routes(build) \ {route} :
                    StatusResult(file', other) = StatusResult(file, other) ]_vars

(* every field of the document in f that a transform of the route leaves   *)
(* alone is in g with the same value                                       *)
UntouchedKept(f, g, route) ==
    /\ g.kind = "json"
    /\ g.doc.other = f.doc.other
    /\ \A k \in OtherKeys(route) : g.doc.models[k] = f.doc.models[k]
    /\ Truthy(f.doc.models.provider) => g.doc.models.provider = f.doc.models.provider
    /\ SubRecord(g, route).model = SubRecord(f, route).model

(* C36: after a successful callback or a disconnect, whatever the settings *)
(* file was (missing, a JSON document, repairable text, or text that can   *)
(* be neither parsed nor repaired), either the file still holds every      *)
(* field it held that the transform did not touch, or the backup file      *)
(* holds the bytes the settings file had.                                  *)
C36_NothingDiscardedSilently ==
    [][ \A route \in AllRoutes :
          MutationStep(route) =>
              \/ file.kind = "missing"
              \/ file.kind = "json" /\ UntouchedKept(file, file', route)
              \/ file' = file
              \/ bak' = file ]_vars

(* C37: at every instant, an entry of the registry would be removed by the *)
(* sweep exactly when a callback with a code and its state on its own      *)
(* provider's route would be rejected, which is exactly when its expiresAt *)
(* is strictly earlier than now: an entry whose expiresAt is now is kept   *)
(* by the sweep and accepted by the callback.                              *)
C37_SweepAndCallbackAgree ==
    \A st \in DOMAIN pkceStore :
        LET swept == st \notin DOMAIN CleanExpired(pkceStore, now)
            rejected == Verdict(pkceStore, pkceStore[st].provider, "c1", st, "", now) # "accept"
        IN  /\ swept <=> rejected
            /\ swept <=> pkceStore[st].expiresAt < now

(* a start has swept the registry at the very instant at which an earlier  *)
(* session expires: the session is still there and would be accepted       *)
C37_KeptAtTheLastInstant ==
    /\ last.resp = "url"
    /\ \E st \in DOMAIN pkceStore :
          /\ st # last.st
          /\ pkceStore[st].expiresAt = now
          /\ Verdict(pkceStore, pkceStore[st].provider, "c1", st, "", now) = "accept"

====
